---- MODULE Spec2Model ----
(***************************************************************************)
(* Model of scripts/data_cleaner.py: the DataCleaner pipeline that loads a *)
(* CSV export, removes duplicate rows (and their images), fills missing    *)
(* values, standardizes formats, validates rows and saves a cleaned copy.  *)
(*                                                                         *)
(* A string is a sequence of characters; a character is a one-element      *)
(* string, except that an emoji code point is written "U+1F389".           *)
(***************************************************************************)
EXTENDS Integers, Sequences, FiniteSets, TLC

VARIABLES
    file_path,    \* argument of clean_telegram_data: the CSV path
    files,        \* the file system: path -> content of every existing file
    images,       \* the image directory: the set of existing image names
    data,         \* the local `data` of clean_telegram_data (NoTable outside a run)
    pc,           \* position inside clean_telegram_data
    result,       \* the DataFrame clean_telegram_data returned (NoTable before)
    log,          \* what the logger received, in order
    stages,       \* the stages this run has entered, in order
    images0,      \* the image directory as the current run found it
    runs,         \* number of completed calls of clean_telegram_data
    text,         \* argument / local `text` of clean_message_content
    cstep         \* position inside clean_message_content

vars == <<file_path, files, images, data, pc, result, log, stages, images0,
          runs, text, cstep>>

pipeline_vars == <<file_path, files, images, data, pc, result, log, stages,
                   images0, runs>>

clean_vars == <<text, cstep>>

----------------------------------------------------------------------------
(* Bounds of the model. *)

MaxRows    == 3    \* rows of the input table
MaxRuns    == 2    \* successive calls of clean_telegram_data
MaxTextLen == 4    \* length of the strings given to clean_message_content

----------------------------------------------------------------------------
(* Characters. *)

LowerSeq == <<"a","b","c","d","e","f","g","h","i","j","k","l","m",
              "n","o","p","q","r","s","t","u","v","w","x","y","z">>
UpperSeq == <<"A","B","C","D","E","F","G","H","I","J","K","L","M",
              "N","O","P","Q","R","S","T","U","V","W","X","Y","Z">>

Range(s) == {s[i] : i \in DOMAIN s}

Letters    == Range(LowerSeq) \cup Range(UpperSeq)
Digits     == {"0","1","2","3","4","5","6","7","8","9"}
Whitespace == {" ", "\t", "\n"}
Emoji      == {"U+1F389", "U+1F600"}

IsSpace(c) == c \in Whitespace

LowerOf == [c \in Range(UpperSeq) |->
                LowerSeq[CHOOSE i \in DOMAIN UpperSeq : UpperSeq[i] = c]]
UpperOf == [c \in Range(LowerSeq) |->
                UpperSeq[CHOOSE i \in DOMAIN LowerSeq : LowerSeq[i] = c]]

ToLower(c) == IF c \in DOMAIN LowerOf THEN LowerOf[c] ELSE c

ToUpper(c) == IF c \in DOMAIN UpperOf THEN UpperOf[c] ELSE c

(* The subsequence of s at the indices in keep. *)
KeepIndices(s, keep) ==
    LET tagged == [i \in DOMAIN s |-> <<i, s[i]>>]
        kept   == SelectSeq(tagged, LAMBDA p : p[1] \in keep)
    IN  [j \in DOMAIN kept |-> kept[j][2]]

(* str.strip(): leading and trailing whitespace removed. *)
Strip(s) ==
    IF \A i \in DOMAIN s : IsSpace(s[i]) THEN <<>>
    ELSE LET lo == CHOOSE i \in DOMAIN s :
                       ~IsSpace(s[i]) /\ \A j \in 1..(i - 1) : IsSpace(s[j])
             hi == CHOOSE i \in DOMAIN s :
                       ~IsSpace(s[i]) /\ \A j \in (i + 1)..Len(s) : IsSpace(s[j])
         IN  IF lo = 1 /\ hi = Len(s) THEN s ELSE SubSeq(s, lo, hi)

(* str.lower() *)
Lower(s) ==
    IF \A i \in DOMAIN s : s[i] \notin DOMAIN LowerOf THEN s
    ELSE [i \in DOMAIN s |-> ToLower(s[i])]

(* str.title(): a letter that follows a non-letter (or starts the string)  *)
(* is upper-cased, every other letter is lower-cased.                      *)
Title(s) ==
    [i \in DOMAIN s |->
        IF i = 1 \/ s[i - 1] \notin Letters THEN ToUpper(s[i]) ELSE ToLower(s[i])]

----------------------------------------------------------------------------
(* clean_message_content and the pattern compiled in __init__. *)

(* The pattern r'[^a-zA-Z0-9\s.,!?;:()[]@&]+' : the first ']' closes the   *)
(* character class, so the class is the negation of NegatedClass, and what *)
(* follows it is the literal text "@&" and then one or more "]".           *)
NegatedClass ==
    Letters \cup Digits \cup Whitespace \cup {".", ",", "!", "?", ";", ":", "(", ")", "["}

(* Length of the run of "]" that starts at index i of s. *)
BracketRun(s, i) ==
    LET stops == {j \in i..Len(s) : s[j] # "]"}
    IN  IF stops = {} THEN Len(s) - i + 1
        ELSE (CHOOSE j \in stops : \A k \in stops : j <= k) - i

(* Whether allowed_characters matches s at index i. *)
MatchesAt(s, i) ==
    /\ i + 3 <= Len(s)
    /\ s[i] \notin NegatedClass
    /\ s[i + 1] = "@"
    /\ s[i + 2] = "&"
    /\ s[i + 3] = "]"

(* Last index of the (greedy) match that starts at i. *)
MatchEnd(s, i) == i + 2 + BracketRun(s, i + 3)

(* The indices re.sub removes: the matches, leftmost first, none           *)
(* overlapping an earlier one.                                             *)
RECURSIVE MatchedIndices(_, _)
MatchedIndices(s, from) ==
    LET starts == {i \in from..Len(s) : MatchesAt(s, i)}
    IN  IF starts = {} THEN {}
        ELSE LET i == CHOOSE a \in starts : \A b \in starts : a <= b
             IN  (i..MatchEnd(s, i)) \cup MatchedIndices(s, MatchEnd(s, i) + 1)

(* emoji.replace_emoji(text, replace='') *)
ReplaceEmoji(s) == SelectSeq(s, LAMBDA c : c \notin Emoji)

(* re.sub(self.allowed_characters, '', text) *)
SubUnwanted(s) ==
    LET matched == MatchedIndices(s, 1)
    IN  IF matched = {} THEN s ELSE KeepIndices(s, DOMAIN s \ matched)

(* Whether the whitespace at index i of s starts a run of whitespace *)
StartsRun(s, i) == i = 1 \/ ~IsSpace(s[i - 1])

(* re.sub(r'\s+', ' ', text) *)
CollapseWhitespace(s) ==
    IF \A i \in DOMAIN s : IsSpace(s[i]) => (s[i] = " " /\ StartsRun(s, i))
    THEN s
    ELSE LET kept == KeepIndices(s, {i \in DOMAIN s : IsSpace(s[i]) => StartsRun(s, i)})
         IN  [j \in DOMAIN kept |-> IF IsSpace(kept[j]) THEN " " ELSE kept[j]]

clean_message_content(s) ==
    Strip(CollapseWhitespace(SubUnwanted(ReplaceEmoji(s))))

----------------------------------------------------------------------------
(* Cell values of a DataFrame. *)

NaN          == [k |-> "nan"]                  \* missing value
NaT          == [k |-> "nat"]                  \* missing datetime
Str(s)       == [k |-> "str", s |-> s]
Num(n)       == [k |-> "int", n |-> n]
Timestamp(t) == [k |-> "datetime", t |-> t]    \* t = <<Y, M, D, h, m, s>>

IsNa(v) == v \in {NaN, NaT}

DigitSeq == <<"0","1","2","3","4","5","6","7","8","9">>

DigitVal(c) == (CHOOSE i \in DOMAIN DigitSeq : DigitSeq[i] = c) - 1

IsNumber(s) == s # <<>> /\ \A i \in DOMAIN s : s[i] \in Digits

RECURSIVE ParseInt(_)
ParseInt(s) ==
    IF s = <<>> THEN 0
    ELSE 10 * ParseInt(SubSeq(s, 1, Len(s) - 1)) + DigitVal(s[Len(s)])

RECURSIVE FormatInt(_)
FormatInt(n) ==
    IF n < 10 THEN <<DigitSeq[n + 1]>>
    ELSE FormatInt(n \div 10) \o <<DigitSeq[(n % 10) + 1]>>

(* n written with at least w digits, as strftime writes a field *)
Pad(n, w) ==
    LET d == FormatInt(n)
    IN  IF Len(d) >= w THEN d ELSE [i \in 1..(w - Len(d)) |-> "0"] \o d

(* The strings pandas.read_csv reads as a missing value, among those the   *)
(* model's character set can spell. *)
NaStrings ==
    { <<>>,
      <<"N","a","N">>, <<"n","a","n">>, <<"N","A">>, <<"N","/","A">>,
      <<"n","/","a">>, <<"N","U","L","L">>, <<"n","u","l","l">>,
      <<"N","o","n","e">> }

IsLeapYear(y) == y % 4 = 0 /\ (y % 100 # 0 \/ y % 400 = 0)

DaysInMonth(y, m) ==
    IF m = 2 THEN (IF IsLeapYear(y) THEN 29 ELSE 28)
    ELSE IF m \in {4, 6, 9, 11} THEN 30 ELSE 31

(* pandas.to_datetime(..., errors='coerce') on one value: the model reads  *)
(* the format "YYYY-MM-DD hh:mm:ss" (years a Timestamp can hold); anything *)
(* else is coerced to NaT.                                                 *)
IsDatetimeText(s) ==
    /\ Len(s) = 19
    /\ \A i \in {1,2,3,4,6,7,9,10,12,13,15,16,18,19} : s[i] \in Digits
    /\ s[5] = "-" /\ s[8] = "-" /\ s[11] = " " /\ s[14] = ":" /\ s[17] = ":"
    /\ ParseInt(SubSeq(s, 1, 4)) \in 1678..2261
    /\ ParseInt(SubSeq(s, 6, 7)) \in 1..12
    /\ ParseInt(SubSeq(s, 9, 10)) \in
          1..DaysInMonth(ParseInt(SubSeq(s, 1, 4)), ParseInt(SubSeq(s, 6, 7)))
    /\ ParseInt(SubSeq(s, 12, 13)) \in 0..23
    /\ ParseInt(SubSeq(s, 15, 16)) \in 0..59
    /\ ParseInt(SubSeq(s, 18, 19)) \in 0..59

to_datetime(v) ==
    IF v.k = "datetime" THEN v
    ELSE IF v.k = "str" /\ IsDatetimeText(v.s)
    THEN Timestamp(<<ParseInt(SubSeq(v.s, 1, 4)), ParseInt(SubSeq(v.s, 6, 7)),
                     ParseInt(SubSeq(v.s, 9, 10)), ParseInt(SubSeq(v.s, 12, 13)),
                     ParseInt(SubSeq(v.s, 15, 16)), ParseInt(SubSeq(v.s, 18, 19))>>)
    ELSE NaT

FormatTimestamp(t) ==
    Pad(t[1], 4) \o <<"-">> \o Pad(t[2], 2) \o <<"-">> \o Pad(t[3], 2) \o <<" ">>
    \o Pad(t[4], 2) \o <<":">> \o Pad(t[5], 2) \o <<":">> \o Pad(t[6], 2)

(* str(value), as an f-string and DataFrame.to_csv spell a value *)
FormatValue(v) ==
    CASE v.k = "str"      -> v.s
      [] v.k = "int"      -> FormatInt(v.n)
      [] v.k = "datetime" -> FormatTimestamp(v.t)
      [] v.k = "nan"      -> <<"n","a","n">>
      [] v.k = "nat"      -> <<"N","a","T">>

(* One cell as DataFrame.to_csv writes it: a missing value is written empty *)
CsvCell(v) == IF IsNa(v) THEN <<>> ELSE FormatValue(v)

(* One cell as pandas.read_csv reads it *)
ParseCell(s) ==
    IF s \in NaStrings THEN NaN
    ELSE IF IsNumber(s) THEN Num(ParseInt(s))
    ELSE Str(s)

----------------------------------------------------------------------------
(* Tables (DataFrames) and CSV files. *)

CHANNEL_ID       == "channel_id"
CHANNEL_TITLE    == "Channel Title"
CHANNEL_USERNAME == "Channel Username"
MESSAGE          == "Message"
DATE             == "Date"
ID               == "ID"
Media_path       == "Media Path"

(* A table is [cols |-> set of column names, rows |-> sequence of rows]; a *)
(* row is a function from the columns to cell values.                      *)
EmptyFrame == [cols |-> {}, rows |-> <<>>]     \* pd.DataFrame()

(* DataFrame.empty: some axis has length 0 *)
IsEmpty(t) == t.cols = {} \/ t.rows = <<>>

NoTable == [cols |-> {"<none>"}, rows |-> <<>>]   \* no DataFrame bound yet

(* A CSV file is [kind |-> "csv", cols, rows] with text cells; a file that *)
(* read_csv cannot parse is Garbage.                                       *)
Garbage == [kind |-> "garbage"]

read_csv(f) ==
    [cols |-> f.cols,
     rows |-> [i \in DOMAIN f.rows |-> [c \in f.cols |-> ParseCell(f.rows[i][c])]]]

to_csv(t) ==
    [kind |-> "csv",
     cols |-> t.cols,
     rows |-> [i \in DOMAIN t.rows |-> [c \in t.cols |-> CsvCell(t.rows[i][c])]]]

(* The rows of t at the indices in keep, in order *)
KeepRows(t, keep) == [cols |-> t.cols, rows |-> KeepIndices(t.rows, keep)]

----------------------------------------------------------------------------
(* The stages of the pipeline, as functions of the table. *)

Info(m)  == [level |-> "info", msg |-> m]
Error(m) == [level |-> "error", msg |-> m]

(* the two messages of _remove_duplicate_images, which name the image *)
Removed(name)     == [level |-> "info", msg |-> "Removed duplicate image", path |-> name]
RemoveError(name) == [level |-> "error", msg |-> "Error removing image", path |-> name]

(* load_data: the DataFrame it returns *)
load_data(fs, path) ==
    IF path \notin DOMAIN fs THEN EmptyFrame            \* FileNotFoundError
    ELSE IF fs[path] = Garbage THEN EmptyFrame          \* any other Exception
    ELSE read_csv(fs[path])

(* load_data: what it logs *)
load_data_log(fs, path) ==
    IF path \notin DOMAIN fs
    THEN <<Error("File not found. Please check the file path.")>>
    ELSE IF fs[path] = Garbage
    THEN <<Error("An error occurred while loading data")>>
    ELSE <<Info("Data loaded successfully.")>>

(* Mutant: keep='last', the earlier occurrences are the ones marked *)
duplicated_keep_last(t) ==
    {i \in DOMAIN t.rows :
        \E j \in (i + 1)..Len(t.rows) : t.rows[j][ID] = t.rows[i][ID]}

(* data.duplicated(subset=ID, keep='first'): the indices it marks True *)
duplicated(t) ==
    {i \in DOMAIN t.rows : \E j \in 1..(i - 1) : t.rows[j][ID] = t.rows[i][ID]}

(* Mutant: the result of drop_duplicates is not kept *)
drop_duplicates_discarded(t) == t

(* data.drop_duplicates(subset=ID, keep='first') *)
drop_duplicates(t) == KeepRows(t, DOMAIN t.rows \ duplicated(t))

(* f"{channel_username}_{message_id}.jpg" *)
image_name(row) ==
    FormatValue(row[CHANNEL_USERNAME]) \o <<"_">> \o FormatValue(row[ID])
        \o <<".", "j", "p", "g">>

(* Mutant: the loop ends at the first os.remove that raises *)
RECURSIVE remove_images_until_failure(_, _, _, _)
remove_images_until_failure(dups, failing, dir, lg) ==
    IF dups = <<>> THEN [images |-> dir, log |-> lg]
    ELSE LET name == FormatValue(Head(dups)[CHANNEL_USERNAME]) \o <<"_">>
                         \o FormatValue(Head(dups)[ID]) \o <<".", "j", "p", "g">>
         IN  IF name \notin dir
             THEN remove_images_until_failure(Tail(dups), failing, dir, lg)
             ELSE IF name \in failing
             THEN [images |-> dir, log |-> Append(lg, RemoveError(name))]
             ELSE remove_images_until_failure(Tail(dups), failing, dir \ {name},
                      Append(lg, Removed(name)))

(* _remove_duplicate_images: the loop over the duplicate rows. `failing`   *)
(* are the names on which os.remove raises. Returns the directory and the  *)
(* log after the loop.                                                     *)
RECURSIVE remove_duplicate_images(_, _, _, _)
remove_duplicate_images(dups, failing, dir, lg) ==
    IF dups = <<>> THEN [images |-> dir, log |-> lg]
    ELSE LET name == image_name(Head(dups))
         IN  IF name \notin dir                          \* os.path.exists
             THEN remove_duplicate_images(Tail(dups), failing, dir, lg)
             ELSE IF name \in failing
             THEN remove_duplicate_images(Tail(dups), failing, dir,
                      Append(lg, RemoveError(name)))
             ELSE remove_duplicate_images(Tail(dups), failing, dir \ {name},
                      Append(lg, Removed(name)))

(* Mutant: fillna with a scalar, which fills every column *)
FillRowEverywhere(row, cols) ==
    [c \in cols |-> IF IsNa(row[c]) THEN Str(<<"N","/","A">>) ELSE row[c]]

(* DataFrame.fillna({...}) on one row *)
FillRow(row, cols) ==
    [c \in cols |->
        IF ~IsNa(row[c]) THEN row[c]
        ELSE IF c = CHANNEL_USERNAME THEN Str(<<"U","n","k","n","o","w","n">>)
        ELSE IF c = MESSAGE THEN Str(<<"N","/","A">>)
        ELSE IF c = DATE
        THEN Str(<<"1","9","7","0","-","0","1","-","0","1"," ",
                   "0","0",":","0","0",":","0","0">>)
        ELSE row[c]]

handle_missing_values(t) ==
    [cols |-> t.cols, rows |-> [i \in DOMAIN t.rows |-> FillRow(t.rows[i], t.cols)]]

(* whether a cell holds a string: .str methods leave a missing value      *)
(* missing                                                                 *)
IsStr(v) == v.k = "str"

(* .str.replace(r'[^a-zA-Z0-9\s]', '', regex=True) *)
StripSymbols(s) ==
    SelectSeq(s, LAMBDA c : c \in Letters \cup Digits \cup Whitespace)

StandardizeMessage(s) == Strip(Lower(clean_message_content(s)))

StandardizeUsername(s) == Title(Strip(StripSymbols(s)))

StandardizeRow(row, cols) ==
    [c \in cols |->
        IF c = DATE THEN to_datetime(row[c])
        ELSE IF c = MESSAGE
        THEN IF IsStr(row[c]) THEN Str(StandardizeMessage(row[c].s)) ELSE NaN
        ELSE IF c = CHANNEL_USERNAME
        THEN IF IsStr(row[c]) THEN Str(StandardizeUsername(row[c].s)) ELSE NaN
        ELSE row[c]]

standardize_formats(t) ==
    [cols |-> t.cols,
     rows |-> [i \in DOMAIN t.rows |-> StandardizeRow(t.rows[i], t.cols)]]

MaxMessageLen == 1000

(* .str.len() is missing for a missing value, and a comparison with a      *)
(* missing value is False                                                  *)
DateValid(row)     == ~IsNa(row[DATE])
MessageValid(row)  == IsStr(row[MESSAGE]) /\ Len(row[MESSAGE].s) <= MaxMessageLen
UsernameValid(row) == IsStr(row[CHANNEL_USERNAME]) /\ Len(row[CHANNEL_USERNAME].s) > 0

(* Mutant: the length filter is strict *)
validate_data_strict(t) ==
    KeepRows(t, {i \in DOMAIN t.rows :
                    /\ DateValid(t.rows[i])
                    /\ (MESSAGE \in t.cols =>
                           /\ IsStr(t.rows[i][MESSAGE])
                           /\ Len(t.rows[i][MESSAGE].s) < MaxMessageLen)
                    /\ UsernameValid(t.rows[i])})

validate_data(t) ==
    KeepRows(t, {i \in DOMAIN t.rows :
                    /\ DateValid(t.rows[i])
                    /\ (MESSAGE \in t.cols => MessageValid(t.rows[i]))
                    /\ UsernameValid(t.rows[i])})

(* column_mapping of save_cleaned_data *)
column_mapping(c) ==
    CASE c = CHANNEL_ID       -> "channel_id"
      [] c = CHANNEL_USERNAME -> "channel_username"
      [] c = CHANNEL_TITLE    -> "channel_title"
      [] c = ID               -> "message_id"
      [] c = MESSAGE          -> "Message"
      [] c = DATE             -> "date"
      [] c = Media_path       -> "media_path"
      [] OTHER                -> c

(* data.rename(columns=column_mapping) *)
rename(t) ==
    LET old(n) == CHOOSE c \in t.cols : column_mapping(c) = n
        new    == {column_mapping(c) : c \in t.cols}
    IN  [cols |-> new,
         rows |-> [i \in DOMAIN t.rows |-> [n \in new |-> t.rows[i][old(n)]]]]

(* str.replace(old, new): every occurrence of old, leftmost first *)
RECURSIVE Replace(_, _, _)
Replace(s, old, new) ==
    IF Len(s) < Len(old) THEN s
    ELSE IF SubSeq(s, 1, Len(old)) = old
    THEN new \o Replace(SubSeq(s, Len(old) + 1, Len(s)), old, new)
    ELSE <<Head(s)>> \o Replace(Tail(s), old, new)

(* file_path.replace('.csv', '_cleaned.csv') *)
cleaned_file_path(path) ==
    Replace(path, <<".","c","s","v">>,
                  <<"_","c","l","e","a","n","e","d",".","c","s","v">>)

----------------------------------------------------------------------------
(* The inputs the model draws from. *)

AllColumns ==
    {CHANNEL_ID, CHANNEL_TITLE, CHANNEL_USERNAME, MESSAGE, DATE, ID, Media_path}

Repeat(c, n) == [i \in 1..n |-> c]

GoodDate == <<"2","0","2","4","-","0","1","-","1","5"," ",
              "1","0",":","3","0",":","0","0">>
BadDate  == <<"n","o","t","-","a","-","d","a","t","e">>

(* One line of the CSV file: text cells *)
Line(id, user, msg, date) ==
    [c \in AllColumns |->
        CASE c = ID               -> id
          [] c = CHANNEL_USERNAME -> user
          [] c = MESSAGE          -> msg
          [] c = DATE             -> date
          [] c = CHANNEL_ID       -> <<"1","0","0">>
          [] c = CHANNEL_TITLE    -> <<"T">>
          [] c = Media_path       -> <<>>]

LinePool ==
    { Line(<<"5">>, <<"c","h","A">>, <<"H","i","/"," ","U+1F389">>, GoodDate),
      Line(<<"5">>, <<"c","h","A">>, <<>>, <<>>),
      Line(<<"5">>, <<>>, <<"b">>, GoodDate),
      Line(<<"6">>, <<"@","@">>, <<"b">>, GoodDate),
      Line(<<"6">>, <<"x">>, Repeat("a", MaxMessageLen + 1), GoodDate),
      Line(<<"7">>, <<"x">>, Repeat("a", MaxMessageLen) \o <<"U+1F600">>, GoodDate),
      Line(<<"7">>, <<"x">>, <<"b">>, BadDate) }

ColumnSets ==
    {AllColumns, AllColumns \ {ID}, AllColumns \ {CHANNEL_USERNAME}}

Restrict(line, cols) == [c \in cols |-> line[c]]

BoundedSeq(S, n) == UNION {[1..k -> S] : k \in 0..n}

CsvFiles ==
    { [kind |-> "csv", cols |-> cols,
       rows |-> [i \in DOMAIN lines |-> Restrict(lines[i], cols)]] :
        cols \in ColumnSets, lines \in BoundedSeq(LinePool, MaxRows) }

PathPool ==
    { <<"d",".","c","s","v">>, <<"d",".","t","x","t">> }

ImagePool ==
    { <<"c","h","A","_","5",".","j","p","g">>,
      <<"n","a","n","_","5",".","j","p","g">>,
      <<"x","_","7",".","j","p","g">> }

----------------------------------------------------------------------------
(* clean_telegram_data, one action per stage. *)

STAGES == <<"load", "dedup", "fill", "standardize", "validate", "persist">>

Init ==
    /\ file_path \in PathPool
    /\ files \in {<<>>} \cup {[p \in {file_path} |-> f] : f \in {Garbage} \cup CsvFiles}
    /\ images \in SUBSET ImagePool
    /\ data = NoTable
    /\ pc = "load"
    /\ result = NoTable
    /\ log = <<>>
    /\ stages = <<>>
    /\ images0 = images
    /\ runs = 0
    /\ text = <<>>
    /\ cstep = "idle"

(* return of clean_telegram_data *)
Return(t, lg) ==
    /\ pc' = "done"
    /\ result' = t
    /\ data' = NoTable
    /\ runs' = runs + 1
    /\ log' = lg

(* Mutant: no except clause, the exception leaves clean_telegram_data *)
ExceptPropagates(lg) == Return(NoTable, lg)

(* the except clause of clean_telegram_data *)
Except(lg) ==
    Return(EmptyFrame, Append(lg, Error("An error occurred during the cleaning process")))

(* Mutant: no check of data.empty after the load *)
LoadWithoutAbort ==
    /\ pc = "load"
    /\ stages' = Append(stages, "load")
    /\ data' = load_data(files, file_path)
    /\ pc' = "dedup"
    /\ log' = log \o load_data_log(files, file_path)
    /\ UNCHANGED <<file_path, files, images, result, runs, images0, text, cstep>>

Load ==
    /\ pc = "load"
    /\ stages' = Append(stages, "load")
    /\ LET loaded == load_data(files, file_path)
       IN  IF IsEmpty(loaded)
           THEN Return(loaded, log \o load_data_log(files, file_path)
                           \o <<Error("No data loaded, cleaning process aborted.")>>)
           ELSE /\ data' = loaded
                /\ pc' = "dedup"
                /\ log' = log \o load_data_log(files, file_path)
                /\ UNCHANGED <<result, runs>>
    /\ UNCHANGED <<file_path, files, images, images0, text, cstep>>

(* remove_duplicates raises KeyError: no ID column, or a duplicate row and *)
(* no Channel Username column                                              *)
RemoveDuplicatesRaises ==
    /\ pc = "dedup"
    /\ stages' = Append(stages, "dedup")
    /\ \/ /\ ID \notin data.cols
          /\ Except(log)
       \/ /\ ID \in data.cols
          /\ duplicated(data) # {}
          /\ CHANNEL_USERNAME \notin data.cols
          /\ Except(Append(log, Info("Duplicates removed.")))
    /\ UNCHANGED <<file_path, files, images, images0, text, cstep>>

RemoveDuplicates ==
    /\ pc = "dedup"
    /\ ID \in data.cols
    /\ duplicated(data) # {} => CHANNEL_USERNAME \in data.cols
    /\ stages' = Append(stages, "dedup")
    /\ LET duplicates == KeepRows(data, duplicated(data)).rows
           targets    == {image_name(duplicates[i]) : i \in DOMAIN duplicates} \cap images
       IN  \E failing \in SUBSET targets :
             LET after == remove_duplicate_images(duplicates, failing, images,
                              Append(log, Info("Duplicates removed.")))
             IN  /\ images' = after.images
                 /\ log' = after.log
    /\ data' = drop_duplicates(data)
    /\ pc' = "fill"
    /\ UNCHANGED <<file_path, files, result, images0, runs, text, cstep>>

HandleMissingValues ==
    /\ pc = "fill"
    /\ stages' = Append(stages, "fill")
    /\ data' = handle_missing_values(data)
    /\ log' = Append(log, Info("Missing values handled."))
    /\ pc' = "standardize"
    /\ UNCHANGED <<file_path, files, images, result, images0, runs, text, cstep>>

StandardizeFormats ==
    /\ pc = "standardize"
    /\ stages' = Append(stages, "standardize")
    /\ data' = standardize_formats(data)
    /\ log' = Append(log, Info("Formats standardized."))
    /\ pc' = "validate"
    /\ UNCHANGED <<file_path, files, images, result, images0, runs, text, cstep>>

(* validate_data raises KeyError: no Date or no Channel Username column *)
ValidateDataRaises ==
    /\ pc = "validate"
    /\ DATE \notin data.cols \/ CHANNEL_USERNAME \notin data.cols
    /\ stages' = Append(stages, "validate")
    /\ Except(log)
    /\ UNCHANGED <<file_path, files, images, images0, text, cstep>>

ValidateData ==
    /\ pc = "validate"
    /\ DATE \in data.cols /\ CHANNEL_USERNAME \in data.cols
    /\ stages' = Append(stages, "validate")
    /\ data' = validate_data(data)
    /\ log' = Append(log, Info("Data validation completed."))
    /\ pc' = "persist"
    /\ UNCHANGED <<file_path, files, images, result, images0, runs, text, cstep>>

SaveCleanedData ==
    /\ pc = "persist"
    /\ stages' = Append(stages, "persist")
    /\ files' = [p \in DOMAIN files \cup {cleaned_file_path(file_path)} |->
                    IF p = cleaned_file_path(file_path)
                    THEN to_csv(rename(data)) ELSE files[p]]
    /\ Return(rename(data), log \o <<Info("Cleaned data saved."),
                                     Info("Data cleaning completed successfully.")>>)
    /\ UNCHANGED <<file_path, images, images0, text, cstep>>

(* to_csv raises OSError: the target cannot be written *)
SaveCleanedDataRaises ==
    /\ pc = "persist"
    /\ stages' = Append(stages, "persist")
    /\ Except(log)
    /\ UNCHANGED <<file_path, files, images, images0, text, cstep>>

Succeeded ==
    /\ pc = "done"
    /\ log # <<>>
    /\ log[Len(log)] = Info("Data cleaning completed successfully.")

(* The caller runs clean_telegram_data again, on the file the run wrote,   *)
(* with the same image directory.                                          *)
RunAgain ==
    /\ Succeeded
    /\ runs < MaxRuns
    /\ file_path' = cleaned_file_path(file_path)
    /\ pc' = "load"
    /\ result' = NoTable
    /\ stages' = <<>>
    /\ log' = <<>>
    /\ images0' = images
    /\ UNCHANGED <<files, images, data, runs, text, cstep>>

Next ==
    \/ Load
    \/ RemoveDuplicates
    \/ RemoveDuplicatesRaises
    \/ HandleMissingValues
    \/ StandardizeFormats
    \/ ValidateData
    \/ ValidateDataRaises
    \/ SaveCleanedData
    \/ SaveCleanedDataRaises
    \/ RunAgain

Spec == Init /\ [][Next]_vars

----------------------------------------------------------------------------
(* clean_message_content on its own, one action per statement. *)

CleanAlphabet ==
    {"a", "Z", "1", " ", "\t", ".", "/", "#", "@", "&", "]", "U+1F389"}

InitClean ==
    /\ text \in BoundedSeq(CleanAlphabet, MaxTextLen)
    /\ cstep = "emoji"
    /\ file_path = <<>>
    /\ files = <<>>
    /\ images = {}
    /\ data = NoTable
    /\ pc = "done"
    /\ result = NoTable
    /\ log = <<>>
    /\ stages = <<>>
    /\ images0 = {}
    /\ runs = 0

CleanReplaceEmoji ==
    /\ cstep = "emoji"
    /\ text' = ReplaceEmoji(text)
    /\ cstep' = "unwanted"
    /\ UNCHANGED pipeline_vars

CleanSubUnwanted ==
    /\ cstep = "unwanted"
    /\ text' = SubUnwanted(text)
    /\ cstep' = "whitespace"
    /\ UNCHANGED pipeline_vars

CleanCollapseWhitespace ==
    /\ cstep = "whitespace"
    /\ text' = CollapseWhitespace(text)
    /\ cstep' = "strip"
    /\ UNCHANGED pipeline_vars

CleanStrip ==
    /\ cstep = "strip"
    /\ text' = Strip(text)
    /\ cstep' = "returned"
    /\ UNCHANGED pipeline_vars

NextClean ==
    \/ CleanReplaceEmoji
    \/ CleanSubUnwanted
    \/ CleanCollapseWhitespace
    \/ CleanStrip

SpecClean == InitClean /\ [][NextClean]_vars

----------------------------------------------------------------------------
(* Properties. *)

(* The table the current run loaded: the file is not modified before the   *)
(* persist stage.                                                          *)
Loaded == load_data(files, file_path)

(* The indices of t whose identifier occurs at no earlier index *)
FirstOccurrences(t) ==
    {i \in DOMAIN t.rows : \A j \in DOMAIN t.rows : j < i => t.rows[j][ID] # t.rows[i][ID]}

(* C1: remove_duplicates never deletes the side-file of a retained row:    *)
(* right after remove_duplicates, every image <username>_<id>.jpg of a row *)
(* it kept that was in the directory before the call is still there, also  *)
(* when a removed row has the username and identifier of a retained row.   *)
C1_RetainedImagesKept ==
    (pc = "fill" /\ CHANNEL_USERNAME \in data.cols) =>
        \A i \in DOMAIN data.rows :
            image_name(data.rows[i]) \in images0 => image_name(data.rows[i]) \in images

(* C2: the identifiers of the rows of the table a successful run returns,  *)
(* and of the file it wrote, are pairwise distinct.                        *)
Distinct(rows, col) ==
    \A i, j \in DOMAIN rows : i # j => rows[i][col] # rows[j][col]

C2_OutputIdsDistinct ==
    Succeeded =>
        /\ Distinct(result.rows, column_mapping(ID))
        /\ Distinct(files[cleaned_file_path(file_path)].rows, column_mapping(ID))

(* C2 witness: a successful run on a file with a repeated identifier that  *)
(* returned at least two rows.                                             *)
C2_Witness ==
    /\ Succeeded
    /\ Len(result.rows) >= 2
    /\ cleaned_file_path(file_path) # file_path
    /\ duplicated(Loaded) # {}

(* The allow-list of the documentation: ASCII letters, digits, the space   *)
(* and . , ! ? ; : ( ) [ ] @ &                                             *)
AllowList ==
    Letters \cup Digits \cup {" "}
        \cup {".", ",", "!", "?", ";", ":", "(", ")", "[", "]", "@", "&"}

(* C3: clean_message_content returns only allow-listed characters, and     *)
(* whitespace only as single spaces that neither lead nor trail.           *)
C3_CleanOutputAllowListed ==
    cstep = "returned" =>
        /\ \A i \in DOMAIN text : text[i] \in AllowList
        /\ \A i \in DOMAIN text :
              IsSpace(text[i]) =>
                  /\ text[i] = " "
                  /\ 1 < i /\ i < Len(text)
                  /\ ~IsSpace(text[i - 1])

(* C4: a second run on the file a successful first run wrote returns       *)
(* exactly the rows of that file, i.e. removes no row.                     *)
C4_SecondRunKeepsRows ==
    (runs = 2 /\ pc = "done") => to_csv(result).rows = files[file_path].rows

(* os.path.splitext: the index at which the extension of path starts       *)
ExtensionStart(path) ==
    LET dots == {i \in DOMAIN path :
                    /\ path[i] = "."
                    /\ i > 1 /\ path[i - 1] # "/"
                    /\ \A j \in (i + 1)..Len(path) : path[j] \notin {".", "/"}}
    IN  IF dots = {} THEN Len(path) + 1 ELSE CHOOSE i \in dots : TRUE

(* <original-stem>_cleaned<original-extension> *)
StemCleanedExt(path) ==
    SubSeq(path, 1, ExtensionStart(path) - 1)
        \o <<"_","c","l","e","a","n","e","d">>
        \o SubSeq(path, ExtensionStart(path), Len(path))

(* C5: no step changes the file at the source path; a step that writes,    *)
(* writes <stem>_cleaned<ext> and nothing else.                            *)
C5_Step ==
    file_path \in DOMAIN files =>
        /\ file_path \in DOMAIN files'
        /\ files'[file_path] = files[file_path]
        /\ files' # files =>
              DOMAIN files' = DOMAIN files \cup {StemCleanedExt(file_path)}

C5_SourceFileUntouched == [][C5_Step]_vars

(* C6: every call returns a table; a call that did not complete (the load  *)
(* failed or a stage raised) returns an empty table and its last log entry *)
(* is the error.                                                           *)
LoadFails == file_path \notin DOMAIN files \/ files[file_path] = Garbage

C6_AlwaysReturnsEmptyOnFailure ==
    pc = "done" =>
        /\ result # NoTable
        /\ (LoadFails \/ ~Succeeded) =>
              /\ IsEmpty(result)
              /\ result.rows = <<>>
              /\ log # <<>>
              /\ log[Len(log)].level = "error"

(* C6 witness: the persist stage raised and the call returned the empty    *)
(* table.                                                                  *)
C6_Witness ==
    /\ pc = "done"
    /\ stages = STAGES
    /\ ~Succeeded
    /\ result = EmptyFrame

(* C7: validate_data keeps exactly the rows whose timestamp is not missing, *)
(* whose message has at most 1000 characters and whose username is not     *)
(* empty, in any order of the three filters; an unparseable timestamp is   *)
(* missing after standardization; every row of a successful output is      *)
(* valid.                                                                  *)
TimestampPresent(row) == row[DATE] \notin {NaN, NaT}
MessageShort(row)     == row[MESSAGE].k = "str" /\ Len(row[MESSAGE].s) <= 1000
UsernameNonEmpty(row) ==
    row[CHANNEL_USERNAME].k = "str" /\ Len(row[CHANNEL_USERNAME].s) > 0

KeptByValidation(row) ==
    TimestampPresent(row) /\ MessageShort(row) /\ UsernameNonEmpty(row)

C7_ValidateStep ==
    (pc = "validate" /\ pc' = "persist" /\ MESSAGE \in data.cols) =>
        /\ data'.cols = data.cols
        /\ data'.rows = SelectSeq(data.rows, KeptByValidation)
        /\ data'.rows = SelectSeq(SelectSeq(SelectSeq(data.rows, UsernameNonEmpty),
                                            MessageShort), TimestampPresent)
        /\ data'.rows = SelectSeq(SelectSeq(SelectSeq(data.rows, MessageShort),
                                            TimestampPresent), UsernameNonEmpty)

C7_StandardizeStep ==
    (pc = "standardize" /\ pc' = "validate") =>
        \A i \in DOMAIN data.rows :
            data.rows[i][DATE] = Str(BadDate) => data'.rows[i][DATE] = NaT

C7_OutputValid ==
    Succeeded =>
        \A i \in DOMAIN result.rows :
            /\ result.rows[i][column_mapping(DATE)].k = "datetime"
            /\ result.rows[i][column_mapping(MESSAGE)].k = "str"
            /\ Len(result.rows[i][column_mapping(MESSAGE)].s) <= 1000
            /\ result.rows[i][column_mapping(CHANNEL_USERNAME)].k = "str"
            /\ Len(result.rows[i][column_mapping(CHANNEL_USERNAME)].s) > 0

C7_ValidationKeepsExactlyValidRows ==
    [][C7_ValidateStep /\ C7_StandardizeStep /\ C7_OutputValid']_vars

(* C7 witness: validation has just dropped a row with a missing timestamp, *)
(* a row with a message that is too long and kept another row.             *)
C7_Witness ==
    /\ pc = "persist"
    /\ Len(data.rows) = 1
    /\ LET before == standardize_formats(handle_missing_values(drop_duplicates(Loaded)))
       IN  /\ Len(before.rows) = 3
           /\ \E i \in DOMAIN before.rows : ~TimestampPresent(before.rows[i])
           /\ \E i \in DOMAIN before.rows : ~MessageShort(before.rows[i])

(* C8: remove_duplicates returns the first-occurrence row of each          *)
(* identifier in the original order, whatever happens to the images; the   *)
(* image of every removed row that was in the directory is deleted, or the *)
(* failure to delete it is logged and the loop goes on.                    *)
C8_RemoveDuplicatesContract ==
    pc = "fill" =>
        LET K      == FirstOccurrences(Loaded)
            nth(n) == CHOOSE i \in K : Cardinality({k \in K : k <= i}) = n
            logged == Range(log)
        IN  /\ data.cols = Loaded.cols
            /\ Len(data.rows) = Cardinality(K)
            /\ \A n \in DOMAIN data.rows : data.rows[n] = Loaded.rows[nth(n)]
            /\ CHANNEL_USERNAME \in Loaded.cols =>
                  \A i \in DOMAIN Loaded.rows \ K :
                      LET name == image_name(Loaded.rows[i])
                      IN  name \in images0 =>
                            \/ name \notin images /\ Removed(name) \in logged
                            \/ name \in images /\ RemoveError(name) \in logged

(* C8 witness: two rows were removed, the image of the first could not be  *)
(* deleted and the image of the second was deleted after that.             *)
C8_Witness ==
    /\ pc = "fill"
    /\ Len(data.rows) = 1
    /\ \E i, j \in DOMAIN log :
          /\ i < j
          /\ log[i].msg = "Error removing image"
          /\ log[j].msg = "Removed duplicate image"
          /\ log[j].path \notin images
          /\ log[i].path \in images

(* C9: handle_missing_values puts "Unknown", "N/A" and the epoch literal   *)
(* in place of a missing username, message and timestamp and changes no    *)
(* other cell; a first-occurrence row whose only defect is a missing       *)
(* username is in the output of a successful run, with username "Unknown". *)
Placeholder(c) ==
    CASE c = CHANNEL_USERNAME -> Str(<<"U","n","k","n","o","w","n">>)
      [] c = MESSAGE          -> Str(<<"N","/","A">>)
      [] c = DATE             -> Str(<<"1","9","7","0","-","0","1","-","0","1"," ",
                                       "0","0",":","0","0",":","0","0">>)

C9_FillStep ==
    (pc = "fill" /\ pc' = "standardize") =>
        /\ data'.cols = data.cols
        /\ Len(data'.rows) = Len(data.rows)
        /\ \A i \in DOMAIN data.rows : \A c \in data.cols :
              data'.rows[i][c] =
                  IF c \in {CHANNEL_USERNAME, MESSAGE, DATE} /\ data.rows[i][c] = NaN
                  THEN Placeholder(c)
                  ELSE data.rows[i][c]

OnlyUsernameMissing(row) ==
    /\ row[CHANNEL_USERNAME] = NaN
    /\ row[DATE].k = "str" /\ IsDatetimeText(row[DATE].s)
    /\ row[MESSAGE].k = "str" /\ Len(row[MESSAGE].s) <= 1000

C9_UnknownReachesOutput ==
    (Succeeded /\ cleaned_file_path(file_path) # file_path) =>
        \A i \in FirstOccurrences(Loaded) :
            OnlyUsernameMissing(Loaded.rows[i]) =>
                \E j \in DOMAIN result.rows :
                    /\ result.rows[j][column_mapping(ID)] = Loaded.rows[i][ID]
                    /\ result.rows[j][column_mapping(CHANNEL_USERNAME)] =
                           Str(<<"U","n","k","n","o","w","n">>)
                    /\ result.rows[j][column_mapping(Media_path)] =
                           Loaded.rows[i][Media_path]

C9_FillTouchesOnlyMissing ==
    [][C9_FillStep /\ C9_UnknownReachesOutput']_vars

(* C9 witness: a successful run whose input has a row with only the        *)
(* username missing.                                                       *)
C9_Witness ==
    /\ Succeeded
    /\ cleaned_file_path(file_path) # file_path
    /\ \E i \in FirstOccurrences(Loaded) : OnlyUsernameMissing(Loaded.rows[i])

(* C10: the stages run in the order load, deduplicate, fill, standardize,  *)
(* validate, persist, each at most once and each after the previous one;   *)
(* when the load yields an empty table only the load stage runs, no image  *)
(* is deleted and no output file is written.                               *)
IsPrefix(s, t) == Len(s) <= Len(t) /\ \A i \in DOMAIN s : s[i] = t[i]

C10_Step ==
    /\ IsPrefix(stages', STAGES)
    /\ pc' # "done" => pc' = STAGES[Len(stages') + 1]
    /\ stages' # stages => (stages' = Append(stages, pc) \/ pc = "done")
    /\ Succeeded' => stages' = STAGES
    /\ (pc = "load" /\ IsEmpty(Loaded)) =>
          /\ pc' = "done"
          /\ stages' = <<"load">>
          /\ IsEmpty(result')
          /\ images' = images
          /\ files' = files
    /\ pc = "done" => (pc' = "load" /\ stages' = <<>> /\ images' = images /\ files' = files)

C10_StagesInOrder == [][C10_Step]_vars

(* C10 witness: a run that stopped after loading nothing, beside a         *)
(* directory that holds images.                                            *)
C10_Witness ==
    /\ pc = "done"
    /\ stages = <<"load">>
    /\ file_path \in DOMAIN files
    /\ files[file_path] # Garbage
    /\ images # {}

(* C11: a file leaves the image directory only in the remove_duplicates    *)
(* stage, and only if its name is <username>_<id>.jpg written from the     *)
(* values as loaded (a missing username reads "nan") of a row whose        *)
(* identifier occurred at an earlier row; no file is ever added. When the  *)
(* loaded table has no repeated identifier the directory stays as it was   *)
(* at the start of the run, and the validate stage, whatever rows it       *)
(* drops, leaves the directory alone.                                      *)
LoadedName(row) ==
    FormatValue(row[CHANNEL_USERNAME]) \o <<"_">> \o FormatValue(row[ID])
        \o <<".", "j", "p", "g">>

LaterOccurrence(rows, i) == \E j \in 1..(i - 1) : rows[j][ID] = rows[i][ID]

C11_Step ==
    /\ images' \subseteq images
    /\ pc \in {"load", "dedup"} => images = images0
    /\ pc # "dedup" => images' = images
    /\ images' # images =>
          /\ pc' = "fill"
          /\ data = Loaded
          /\ \A n \in images \ images' :
                \E i \in DOMAIN data.rows :
                    /\ LaterOccurrence(data.rows, i)
                    /\ n = LoadedName(data.rows[i])
    /\ (pc = "dedup" /\ ID \in data.cols /\ Distinct(data.rows, ID)) =>
          /\ images' = images0
          /\ images0' = images0
    /\ (pc \notin {"load", "dedup", "done"} /\ images = images0) =>
          images' = images0'

C11_DeletionsOnlyOfDuplicates == [][C11_Step]_vars

(* C11 witness: a finished run that deleted the image of a duplicate row   *)
(* and kept the image of a row that validation dropped.                    *)
C11_Witness ==
    /\ Succeeded
    /\ cleaned_file_path(file_path) # file_path
    /\ images # images0
    /\ \E i \in DOMAIN Loaded.rows \ duplicated(Loaded) :
          /\ LoadedName(Loaded.rows[i]) \in images
          /\ \A k \in DOMAIN result.rows :
                result.rows[k][column_mapping(ID)] # Loaded.rows[i][ID]

====
